---- MODULE Spec2Model ----
(***************************************************************************)
(* Model of `poetry plugin add` (PluginAddCommand.handle and its helpers,  *)
(* src/poetry/console/commands/plugin/add.py).                             *)
(*                                                                         *)
(* Text (plugin specifiers, package names, dictionary keys, versions) is   *)
(* a sequence of one-character strings, so that str.lower() and the        *)
(* parsing of a specifier are computed rather than assumed.  The manifest  *)
(* <env_dir>/pyproject.toml is either NoFile or a document with the        *)
(* [tool.poetry] metadata and the ordered [tool.poetry.dependencies]       *)
(* table.                                                                  *)
(***************************************************************************)
EXTENDS Integers, Sequences, FiniteSets, TLC

VARIABLES
    disk,       \* content of <env_dir>/pyproject.toml, or NoFile
    installed,  \* packages installed in the system environment
    last,       \* what the most recent invocation of handle() was given and did
    runs        \* number of invocations so far

vars == <<disk, installed, last, runs>>

\* Longest list of plugins given to one invocation.
MaxPlugins == 2
\* Number of invocations followed.
MaxRuns == 2

----------------------------------------------------------------------------
(* Text helpers *)

\* str.lower() on one character
lower_char(c) ==
    CASE c = "M" -> "m"
      [] c = "C" -> "c"
      [] c = "V" -> "v"
      [] c = "P" -> "p"
      [] OTHER -> c

\* str.lower()
lower(s) == [i \in 1..Len(s) |-> lower_char(s[i])]

InSeq(x, s) == \E i \in 1..Len(s) : s[i] = x

\* the characters of s from position i on
From(s, i) == IF i > Len(s) THEN <<>> ELSE SubSeq(s, i, Len(s))

\* position of the first occurrence of character c in s from position i on,
\* 0 when absent
RECURSIVE FindFrom(_, _, _)
FindFrom(s, c, i) ==
    IF i > Len(s) THEN 0
    ELSE IF s[i] = c THEN i
    ELSE FindFrom(s, c, i + 1)

\* str.find(c) + 1
Find(s, c) == FindFrom(s, c, 1)

\* ".".join(parts)
RECURSIVE Join(_)
Join(parts) ==
    IF Len(parts) = 0 THEN <<>>
    ELSE IF Len(parts) = 1 THEN <<parts[1]>>
    ELSE <<parts[1], ".">> \o Join(Tail(parts))

\* order of characters, as sorted() sees them
CharOrder == <<"d", "s", "x">>

CharRank(c) == Find(CharOrder, c)

\* list(sorted(set_of_one_character_extras))
RECURSIVE Sorted(_)
Sorted(S) ==
    IF S = {} THEN <<>>
    ELSE LET least == CHOOSE c \in S : \A d \in S : CharRank(c) <= CharRank(d)
         IN  <<least>> \o Sorted(S \ {least})

----------------------------------------------------------------------------
(* Manifest documents *)

NoFile == [exists |-> FALSE]

Document(meta, deps) == [exists |-> TRUE, meta |-> meta, deps |-> deps]

\* a bare version string stored as the value of a key
Plain(text) == [kind |-> "plain", text |-> text, items |-> <<>>]

\* a tomlkit inline table: ordered (field, value) pairs
Table(items) == [kind |-> "table", text |-> <<>>, items |-> items]

Entry(key, value) == [key |-> key, value |-> value]

Keys(section) == [i \in 1..Len(section) |-> section[i].key]

\* SetItem that never looks for the key
SetItemAppending(section, key, value) == Append(section, Entry(key, value))

\* section[key] = value on a tomlkit table: an existing key keeps its
\* position and gets the new value, a new key is appended
SetItem(section, key, value) ==
    IF \E i \in 1..Len(section) : section[i].key = key
    THEN [i \in 1..Len(section) |->
            IF section[i].key = key THEN Entry(key, value) ELSE section[i]]
    ELSE Append(section, Entry(key, value))

\* Collapse that keeps every inline table
CollapseNever(items) == Table(items)

\* "len(constraint) == 1 and 'version' in constraint" => constraint["version"]
Collapse(items) ==
    IF Len(items) = 1 /\ items[1][1] = "version"
    THEN Plain(items[1][2])
    ELSE Table(items)

----------------------------------------------------------------------------
(* The collaborators handle() calls *)

\* Plugin specifiers a user may type: a bare name in two casings, a name with
\* a valid and with a malformed constraint, a git url and a path.
Specifiers ==
    { <<"m">>, <<"M">>, <<"m", "@", "1">>, <<"m", "@", "!">>,
      <<"g", "+", "v">>, <<".", "/", "p">> }

PluginLists == UNION { [1..n -> Specifiers] : n \in 0..MaxPlugins }

\* the version the determiner finds for a bare name (a repository lookup)
BestVersion == <<"^", "2">>

IsVcs(requirement) ==
    Len(requirement) >= 2 /\ requirement[1] = "g" /\ requirement[2] = "+"

IsPath(requirement) == Len(requirement) >= 1 /\ requirement[1] = "."

IsBare(requirement) ==
    ~IsVcs(requirement) /\ ~IsPath(requirement) /\ Find(requirement, "@") = 0

\* Requirement Determiner, one specifier: the structured spec, a canonical
\* (case-normalised) name plus the other fields in order
determine_requirement(requirement) ==
    IF IsVcs(requirement)
    THEN [name |-> lower(From(requirement, 3)),
          items |-> << <<"git", From(requirement, 3)>> >>]
    ELSE IF IsPath(requirement)
    THEN [name |-> lower(From(requirement, 3)),
          items |-> << <<"path", requirement>> >>]
    ELSE IF Find(requirement, "@") # 0
    THEN [name |-> lower(SubSeq(requirement, 1, Find(requirement, "@") - 1)),
          items |-> << <<"version",
                         From(requirement, Find(requirement, "@") + 1)>> >>]
    ELSE [name |-> lower(requirement), items |-> << <<"version", BestVersion>> >>]

\* self._determine_requirements(plugins)
determine_requirements(plugins) ==
    [i \in 1..Len(plugins) |-> determine_requirement(plugins[i])]

\* parse_constraint(text) accepts the text
parse_constraint_ok(text) == Find(text, "!") = 0

HasField(items, field) == \E i \in 1..Len(items) : items[i][1] = field

FieldValue(items, field) ==
    items[CHOOSE i \in 1..Len(items) : items[i][1] = field][2]

----------------------------------------------------------------------------
(* The system environment *)

PoetryName == <<"p", "o", "e", "t", "r", "y">>

PythonKey == <<"p", "y", "t", "h", "o", "n">>

\* Provider.UNSAFE_PACKAGES
UNSAFE_PACKAGES == { <<"p", "i", "p">>, <<"w", "h", "e", "e", "l">> }

\* system_env.version_info[:3], each already str()
version_info == <<"3", "9", "1">>

NoText == <<>>

Dependency(name, vcs, source_url, reference, is_path, constraint, marker, extras) ==
    [name |-> name, vcs |-> vcs, source_url |-> source_url,
     reference |-> reference, is_path |-> is_path,
     pretty_constraint |-> constraint, marker |-> marker, extras |-> extras]

PoetryRequires ==
    << Dependency(<<"c">>, "", NoText, NoText, FALSE, <<">", "=", "7">>, NoText, {}),
       Dependency(<<"k">>, "git", <<"u">>, <<"r">>, FALSE, <<"*">>, NoText, {}),
       Dependency(<<"l">>, "", <<".", "/", "l">>, NoText, TRUE, <<"*">>, <<"w">>, {}),
       Dependency(<<"q">>, "", NoText, NoText, FALSE, <<"^", "2">>, NoText, {"x", "s"}) >>

Package(name, version, requires) ==
    [name |-> name, version |-> version, requires |-> requires]

NoPackage == [found |-> FALSE]

\* ProjectPackage(name, version) with its requirements added
ProjectPackage(package) ==
    [found |-> TRUE, name |-> package.name, version |-> package.version,
     description |-> NoText, authors |-> <<>>, requires |-> package.requires,
     python_versions |-> NoText]

\* the loop over installed_repository.packages: skips unsafe packages, keeps
\* the package named "poetry" as the root package
RECURSIVE find_root_package(_, _)
find_root_package(packages, root_package) ==
    IF Len(packages) = 0 THEN root_package
    ELSE IF Head(packages).name \in UNSAFE_PACKAGES
    THEN find_root_package(Tail(packages), root_package)
    ELSE IF Head(packages).name = PoetryName
    THEN find_root_package(Tail(packages), ProjectPackage(Head(packages)))
    ELSE find_root_package(Tail(packages), root_package)

----------------------------------------------------------------------------
(* create_pyproject_from_package *)

\* the inline table built for one requirement of the root package
dependency_constraint(dep) ==
    LET source ==
            IF dep.vcs # ""
            THEN << <<dep.vcs, dep.source_url>> >>
                 \o (IF dep.reference # NoText
                     THEN << <<"rev", dep.reference>> >> ELSE <<>>)
            ELSE IF dep.is_path
            THEN << <<"path", dep.source_url>> >>
            ELSE << <<"version", dep.pretty_constraint>> >>
        markers ==
            IF dep.marker # NoText THEN << <<"markers", dep.marker>> >> ELSE <<>>
        extras ==
            IF dep.extras # {} THEN << <<"extras", Sorted(dep.extras)>> >> ELSE <<>>
    IN  source \o markers \o extras

\* the loop over package.requires: each entry collapsed, then stored
RECURSIVE add_requires(_, _, _)
add_requires(requires, dependency_section, stored) ==
    IF Len(requires) = 0
    THEN [section |-> dependency_section, stored |-> stored]
    ELSE LET constraint == dependency_constraint(Head(requires))
             value == Collapse(constraint)
         IN  add_requires(Tail(requires),
                          SetItem(dependency_section, Head(requires).name, value),
                          Append(stored, [record |-> constraint, value |-> value]))

\* the document written from the POETRY_DEFAULT template for `package`
synthesized_document(package) ==
    LET filled == add_requires(package.requires,
                               << Entry(PythonKey, Plain(package.python_versions)) >>,
                               <<>>)
    IN  [file |-> Document([name |-> package.name, version |-> package.version,
                            description |-> package.description,
                            authors |-> package.authors],
                           filled.section),
         wrote |-> TRUE,
         stored |-> filled.stored]

\* create_pyproject_from_package without the check that the file exists
create_pyproject_always(package, file) == synthesized_document(package)

\* create_pyproject_from_package(package, path): nothing when the file exists
create_pyproject_from_package(package, file) ==
    IF file.exists
    THEN [file |-> file, wrote |-> FALSE, stored |-> <<>>]
    ELSE synthesized_document(package)

----------------------------------------------------------------------------
(* get_existing_packages_from_input *)

\* matches_of with the keys compared as they are stored
RECURSIVE matches_of_exact(_, _)
matches_of_exact(name, keys) ==
    IF Len(keys) = 0 THEN <<>>
    ELSE (IF Head(keys) = name THEN <<name>> ELSE <<>>)
         \o matches_of_exact(name, Tail(keys))

\* the names appended for one requested name: once per matching key
RECURSIVE matches_of(_, _)
matches_of(name, keys) ==
    IF Len(keys) = 0 THEN <<>>
    ELSE (IF lower(Head(keys)) = lower(name) THEN <<name>> ELSE <<>>)
         \o matches_of(name, Tail(keys))

RECURSIVE get_existing_packages_from_input(_, _)
get_existing_packages_from_input(packages, keys) ==
    IF Len(packages) = 0 THEN <<>>
    ELSE matches_of(Head(packages), keys)
         \o get_existing_packages_from_input(Tail(packages), keys)

\* not_existing with the filter left out
not_existing_unfiltered(plugins, existing_packages) == plugins

\* [plugin for plugin in plugins if plugin not in existing_packages]
not_existing(plugins, existing_packages) ==
    SelectSeq(plugins, LAMBDA plugin : ~InSeq(plugin, existing_packages))

----------------------------------------------------------------------------
(* handle *)

\* the loop over the determined plugins: validate, build the inline table,
\* collapse, store under the plugin's name; stops at the first constraint
\* that parse_constraint rejects
RECURSIVE merge_plugins(_, _, _, _)
merge_plugins(plugins, poetry_dependency_section, plugin_names, stored) ==
    IF Len(plugins) = 0
    THEN [ok |-> TRUE, section |-> poetry_dependency_section,
          plugin_names |-> plugin_names, stored |-> stored]
    ELSE LET plugin == Head(plugins)
         IN  IF /\ HasField(plugin.items, "version")
                /\ ~parse_constraint_ok(FieldValue(plugin.items, "version"))
             THEN [ok |-> FALSE, section |-> poetry_dependency_section,
                   plugin_names |-> plugin_names, stored |-> stored]
             ELSE LET constraint == plugin.items
                      value == Collapse(constraint)
                  IN  merge_plugins(
                          Tail(plugins),
                          SetItem(poetry_dependency_section, plugin.name, value),
                          Append(plugin_names, plugin.name),
                          Append(stored, [record |-> constraint, value |-> value]))

UpdateWord == <<"u", "p", "d", "a", "t", "e">>

DryRunWord == <<"-", "-", "d", "r", "y", "-", "r", "u", "n">>

\* update_argv with the --dry-run option forgotten
update_argv_no_option(plugin_names, dry_run) == <<UpdateWord>> \o plugin_names

\* argv = ["update"] + plugin_names, plus "--dry-run" when the option is set
update_argv(plugin_names, dry_run) ==
    <<UpdateWord>> \o plugin_names \o (IF dry_run THEN <<DryRunWord>> ELSE <<>>)

\* What one invocation did.  status: "nothing" (return 0 before any work),
\* "unresolvable" (the determiner raised), "no_root" (no package named poetry:
\* root_package is None), "invalid" (parse_constraint raised), "delegated"
\* (update_command.run returned `exit`).
Outcome(status, exit, file, notified, determined, wrote, stored, plugin_names, argv) ==
    [status |-> status, exit |-> exit, file |-> file, notified |-> notified,
     determined |-> determined, wrote |-> wrote, stored |-> stored,
     plugin_names |-> plugin_names, argv |-> argv]

\* write_and_run_update that writes the manifest only once the update
\* command has succeeded
write_after_successful_update(created, merged, existing_packages, plugins, dry_run, env) ==
    Outcome("delegated", env.exit,
            IF env.exit = 0
            THEN [created.file EXCEPT !.deps = merged.section]
            ELSE created.file,
            existing_packages, plugins, created.wrote,
            merged.stored, merged.plugin_names,
            update_argv(merged.plugin_names, dry_run))

\* write_and_run_update that leaves the manifest alone in a dry run
write_unless_dry_run(created, merged, existing_packages, plugins, dry_run, env) ==
    Outcome("delegated", env.exit,
            IF dry_run
            THEN created.file
            ELSE [created.file EXCEPT !.deps = merged.section],
            existing_packages, plugins, created.wrote,
            merged.stored, merged.plugin_names,
            update_argv(merged.plugin_names, dry_run))

\* the end of handle: the document with the merged section is written to
\* pyproject.toml, then the update command is run on ["update"] + plugin_names
\* and its exit status returned
write_and_run_update(created, merged, existing_packages, plugins, dry_run, env) ==
    Outcome("delegated", env.exit,
            [created.file EXCEPT !.deps = merged.section],
            existing_packages, plugins, created.wrote,
            merged.stored, merged.plugin_names,
            update_argv(merged.plugin_names, dry_run))

\* PluginAddCommand.handle on the manifest `file`, with the collaborators'
\* answers in env: resolves (the determiner succeeds), exit (what
\* update_command.run returns)
handle(file, plugins_argument, dry_run, packages, env) ==
    LET existing_packages ==
            IF file.exists
            THEN get_existing_packages_from_input(plugins_argument, Keys(file.deps))
            ELSE <<>>
        plugins ==
            IF file.exists
            THEN not_existing(plugins_argument, existing_packages)
            ELSE plugins_argument
    IN  IF Len(plugins) = 0
        THEN Outcome("nothing", 0, file, existing_packages,
                     <<>>, FALSE, <<>>, <<>>, <<>>)
        ELSE IF ~env.resolves
        THEN Outcome("unresolvable", 1, file, existing_packages,
                     plugins, FALSE, <<>>, <<>>, <<>>)
        ELSE
        LET requirements == determine_requirements(plugins)
            root_package == find_root_package(packages, NoPackage)
        IN  IF ~root_package.found
            THEN Outcome("no_root", 1, file, existing_packages,
                         plugins, FALSE, <<>>, <<>>, <<>>)
            ELSE
            LET created == create_pyproject_from_package(
                               [root_package EXCEPT
                                   !.python_versions = Join(version_info)],
                               file)
                merged == merge_plugins(requirements, created.file.deps,
                                        <<>>, created.stored)
            IN  IF ~merged.ok
                THEN Outcome("invalid", 1, created.file, existing_packages,
                             plugins, created.wrote, created.stored, <<>>, <<>>)
                ELSE write_and_run_update(created, merged, existing_packages,
                                          plugins, dry_run, env)

----------------------------------------------------------------------------
(* The state machine *)

(* handle() keeps nothing between invocations but the manifest file, so a  *)
(* run is a first command line on any manifest that may be at the          *)
(* environment root (none, hand-written ones, one left by an earlier       *)
(* `plugin add`), followed by repetitions of that command line.            *)

UserMeta ==
    [name |-> <<"h">>, version |-> <<"0", ".", "1">>,
     description |-> <<"d">>, authors |-> << <<"a">> >>]

DefaultEnv == [resolves |-> TRUE, exit |-> 0]

WithPoetry ==
    << Package(<<"p", "i", "p">>, <<"2", "1">>, <<>>),
       Package(PoetryName, <<"1", ".", "2">>, PoetryRequires),
       Package(<<"r">>, <<"2">>, <<>>) >>

WithoutPoetry ==
    << Package(<<"p", "i", "p">>, <<"2", "1">>, <<>>),
       Package(<<"r">>, <<"2">>, <<>>) >>

\* what InstalledRepository.load(system_env) may find
InstalledOptions == { WithPoetry, WithoutPoetry }

\* manifests that may already be at the environment root
InitialManifests ==
    { NoFile,
      Document(UserMeta,
               << Entry(PythonKey, Plain(<<"^", "3">>)),
                  Entry(<<"m">>, Plain(<<"^", "1">>)) >>),
      Document(UserMeta,
               << Entry(PythonKey, Plain(<<"^", "3">>)),
                  Entry(<<"M">>, Table(<< <<"version", <<"^", "1">>>> >>)),
                  Entry(<<"c">>, Plain(<<"7">>)) >>),
      Document(UserMeta,
               << Entry(<<"v">>, Table(<< <<"git", <<"o">>>> >>)),
                  Entry(PythonKey, Plain(<<"^", "3">>)),
                  Entry(<<"c">>, Plain(<<"7">>)) >>),
      handle(NoFile, << <<".", "/", "p">> >>, FALSE, WithPoetry, DefaultEnv).file }

ExitCodes == {0, 1}

Init ==
    /\ disk \in InitialManifests
    /\ installed \in InstalledOptions
    /\ runs = 0
    /\ last = [plugins |-> <<>>, dry_run |-> FALSE, env |-> DefaultEnv,
               pre |-> disk,
               out |-> Outcome("none", 0, disk, <<>>, <<>>, FALSE, <<>>, <<>>, <<>>),
               again |-> FALSE,
               before |-> [status |-> "none", exit |-> 0]]

\* `poetry plugin add [--dry-run] plugins...` on the manifest on disk.  The
\* collaborators' answers are chosen only where the invocation asks for
\* them: the determiner's when a plugin is left to determine, the update
\* command's when it is run.
Invoke(plugins, again) ==
    \E dry_run \in BOOLEAN :
    \E probe \in {handle(disk, plugins, dry_run, installed, DefaultEnv).status} :
    \E resolves \in (IF probe = "nothing" THEN {TRUE} ELSE BOOLEAN) :
    \E exit \in (IF resolves /\ probe = "delegated" THEN ExitCodes ELSE {0}) :
    \E out \in {handle(disk, plugins, dry_run, installed,
                       [resolves |-> resolves, exit |-> exit])} :
       /\ disk' = out.file
       /\ last' = [plugins |-> plugins, dry_run |-> dry_run,
                   env |-> [resolves |-> resolves, exit |-> exit],
                   pre |-> disk, out |-> out, again |-> again,
                   before |-> [status |-> last.out.status,
                               exit |-> last.out.exit]]

\* the first command line
Handle ==
    /\ runs = 0
    /\ \E plugins \in PluginLists : Invoke(plugins, FALSE)
    /\ runs' = runs + 1
    /\ UNCHANGED installed

\* the same plugins requested again
HandleAgain ==
    /\ runs > 0
    /\ runs < MaxRuns
    /\ Invoke(last.plugins, TRUE)
    /\ runs' = runs + 1
    /\ UNCHANGED installed

Next == Handle \/ HandleAgain

Spec == Init /\ [][Next]_vars

----------------------------------------------------------------------------
(* Vocabulary of the properties *)

\* handle() has been invoked
Called == last.out.status # "none"

\* `name`, lower-cased, equals some key of the dependency section, lower-cased
AlreadyPresent(name, file) ==
    \E i \in 1..Len(file.deps) : lower(file.deps[i].key) = lower(name)

\* the requested names left once those already present are taken out
Survivors(file, plugins) ==
    IF file.exists
    THEN SelectSeq(plugins, LAMBDA name : ~AlreadyPresent(name, file))
    ELSE plugins

\* the canonical names of the requests, in request order
CanonicalNames(plugins) ==
    [i \in 1..Len(plugins) |-> determine_requirement(plugins[i]).name]

HasKey(file, key) == file.exists /\ \E i \in 1..Len(file.deps) : file.deps[i].key = key

Range(s) == { s[i] : i \in 1..Len(s) }

----------------------------------------------------------------------------
(* C1 *)

\* C1: for a manifest that exists before the call, the requested names that
\* match a dependency key case-insensitively are exactly the ones reported as
\* already present, and none of them is passed on to be merged; when handle
\* gets through to the merge (no fatal error), every other requested name is
\* upserted under its canonical name and is in the manifest on disk.
C1_PresentFilteredOthersMerged ==
    (Called /\ last.pre.exists) =>
        /\ \A i \in 1..Len(last.plugins) :
              AlreadyPresent(last.plugins[i], last.pre)
                  <=> InSeq(last.plugins[i], last.out.notified)
        /\ Range(last.out.notified) \subseteq Range(last.plugins)
        /\ last.out.determined = Survivors(last.pre, last.plugins)
        /\ (last.out.status = "delegated" =>
               /\ last.out.plugin_names
                     = CanonicalNames(Survivors(last.pre, last.plugins))
               /\ \A i \in 1..Len(last.plugins) :
                     ~AlreadyPresent(last.plugins[i], last.pre) =>
                         HasKey(disk, determine_requirement(last.plugins[i]).name))

\* a request that matches a key only case-insensitively is reported while
\* another one in the same list is merged
C1_Witness ==
    /\ Called /\ last.pre.exists
    /\ last.out.status = "delegated"
    /\ \E i \in 1..Len(last.plugins) :
          /\ InSeq(last.plugins[i], last.out.notified)
          /\ ~HasKey(last.pre, last.plugins[i])
    /\ \E i \in 1..Len(last.plugins) :
          /\ ~InSeq(last.plugins[i], last.out.notified)
          /\ ~HasKey(last.pre, determine_requirement(last.plugins[i]).name)
          /\ HasKey(disk, determine_requirement(last.plugins[i]).name)

----------------------------------------------------------------------------
(* C2 *)

\* C2: when parse_constraint rejects a requested constraint, the manifest on
\* disk after the call (its existence included) is what it was before.
C2_InvalidConstraintLeavesManifest ==
    last.out.status = "invalid" => disk = last.pre

----------------------------------------------------------------------------
(* C4 *)

\* C4: when no requested name is left after the already-present filter (the
\* empty list included), handle returns 0, the manifest on disk is unchanged,
\* nothing is synthesized, the determiner is given nothing and the update
\* command is not run.
C4_NothingLeftNothingDone ==
    (Called /\ Len(Survivors(last.pre, last.plugins)) = 0) =>
        /\ last.out.status = "nothing"
        /\ last.out.exit = 0
        /\ disk = last.pre
        /\ ~last.out.wrote
        /\ last.out.determined = <<>>
        /\ last.out.argv = <<>>

\* "M" requested while the manifest holds "m" (or the reverse)
C4_Witness ==
    /\ Called
    /\ last.out.status = "nothing"
    /\ Len(last.plugins) > 0
    /\ \E i \in 1..Len(last.plugins) : ~HasKey(last.pre, last.plugins[i])
    /\ disk = last.pre

----------------------------------------------------------------------------
(* C3 *)

\* the request, lower-cased, is the name the determiner gives it, lower-cased
TypedAsNamed(requirement) ==
    lower(requirement) = lower(determine_requirement(requirement).name)

\* a single request is repeated after an invocation that merged it
RepeatedRequest ==
    /\ last.again
    /\ last.before.status = "delegated"
    /\ Len(last.plugins) = 1

\* C3 as stated: a request of any form given twice in a row leaves the
\* manifest as the first invocation left it, and the second invocation
\* reports it as already present, merging nothing and not running the update.
C3_AnyFormReportedSecondTime ==
    (RepeatedRequest /\ last.env.resolves) =>
        /\ disk = last.pre
        /\ last.out.status = "nothing"
        /\ last.out.notified = last.plugins

\* C3 as amended: a single request given twice in a row leaves the manifest
\* as the first invocation left it; the second invocation reports it as
\* already present (and merges nothing, runs no update) exactly when the
\* request as typed equals, case-insensitively, the name it was merged under;
\* a name@constraint, VCS or path request is not reported, is determined
\* again and, when determined, merged and handed to the update command again.
C3_RepeatKeepsManifest ==
    RepeatedRequest =>
        /\ disk = last.pre
        /\ (TypedAsNamed(last.plugins[1]) =>
               /\ last.out.status = "nothing"
               /\ last.out.notified = last.plugins
               /\ last.out.argv = <<>>)
        /\ (~TypedAsNamed(last.plugins[1]) =>
               /\ last.out.notified = <<>>
               /\ last.out.determined = last.plugins
               /\ (last.env.resolves =>
                      /\ last.out.status = "delegated"
                      /\ last.out.plugin_names = CanonicalNames(last.plugins)))

\* a name@constraint, VCS or path request merged a second time, the manifest
\* as the first invocation left it
C3_Witness ==
    /\ RepeatedRequest
    /\ ~IsBare(last.plugins[1])
    /\ last.out.status = "delegated"
    /\ last.out.notified = <<>>
    /\ disk = last.pre

----------------------------------------------------------------------------
(* C5 *)

\* the plugin names in the update command's argv
Scope == Range(last.out.plugin_names)

\* C5 as stated: the update command is given exactly the names of the
\* requests that survived the filter, in request order, plus --dry-run when
\* set; no name reported as already present and no other key of the
\* dependency section is among them.
C5_NoReportedNameInScope ==
    last.out.status = "delegated" =>
        /\ last.out.argv
              = <<UpdateWord>>
                \o CanonicalNames(Survivors(last.pre, last.plugins))
                \o (IF last.dry_run THEN <<DryRunWord>> ELSE <<>>)
        /\ Range(last.out.notified) \cap Scope = {}
        /\ \A i \in 1..Len(disk.deps) :
              disk.deps[i].key \in Scope =>
                  disk.deps[i].key
                      \in Range(CanonicalNames(Survivors(last.pre, last.plugins)))

\* C5 as amended: the update command is given exactly the canonical names of
\* the requests that survived the filter, in request order, plus --dry-run
\* when set; a key of the dependency section is among them only as the name
\* of a surviving request, and a name reported as already present only when
\* another, surviving request of the same invocation resolves to that name.
C5_ScopeIsSurvivors ==
    last.out.status = "delegated" =>
        /\ last.out.argv
              = <<UpdateWord>>
                \o CanonicalNames(Survivors(last.pre, last.plugins))
                \o (IF last.dry_run THEN <<DryRunWord>> ELSE <<>>)
        /\ \A i \in 1..Len(disk.deps) :
              disk.deps[i].key \in Scope =>
                  disk.deps[i].key
                      \in Range(CanonicalNames(Survivors(last.pre, last.plugins)))
        /\ \A name \in Range(last.out.notified) \cap Scope :
              \E i \in 1..Len(last.plugins) :
                 /\ ~AlreadyPresent(last.plugins[i], last.pre)
                 /\ determine_requirement(last.plugins[i]).name = name

\* a name reported as already present is in the update command's scope,
\* with --dry-run set
C5_Witness ==
    /\ last.out.status = "delegated"
    /\ last.dry_run
    /\ Range(last.out.notified) \cap Scope # {}
    /\ Len(last.out.plugin_names) = 1

----------------------------------------------------------------------------
(* C6 *)

\* C6: when pyproject.toml exists before the call, nothing is synthesized and
\* the merge works on the existing content: the metadata is unchanged and
\* every dependency entry that was in the file is still at its position, with
\* its value unless its key is the name of a merged plugin.
C6_ExistingManifestKept ==
    (Called /\ last.pre.exists) =>
        /\ ~last.out.wrote
        /\ disk.exists
        /\ disk.meta = last.pre.meta
        /\ Len(disk.deps) >= Len(last.pre.deps)
        /\ \A i \in 1..Len(last.pre.deps) :
              /\ disk.deps[i].key = last.pre.deps[i].key
              /\ (last.pre.deps[i].key \notin Scope =>
                     disk.deps[i] = last.pre.deps[i])

\* a plugin merged over an existing key that is not the last one, and another
\* appended, in a hand-written manifest
C6_Witness ==
    /\ Called /\ last.pre.exists
    /\ last.out.status = "delegated"
    /\ last.pre.meta = UserMeta
    /\ Len(disk.deps) > Len(last.pre.deps)
    /\ \E i \in 1..(Len(last.pre.deps) - 1) :
          /\ last.pre.deps[i].key \in Scope
          /\ disk.deps[i] # last.pre.deps[i]

----------------------------------------------------------------------------
(* C7 *)

\* C7: for every entry stored by the synthesis or by the merge, a constraint
\* record whose only field is version is stored as the plain version string,
\* and a structured record is stored, as built, only when the record has
\* another field or more than one.
C7_SingleVersionIsPlain ==
    \A i \in 1..Len(last.out.stored) :
        LET record == last.out.stored[i].record
            value == last.out.stored[i].value
        IN  /\ (Len(record) = 1 /\ record[1][1] = "version") =>
                   value = Plain(record[1][2])
            /\ value.kind = "table" =>
                   /\ value.items = record
                   /\ (Len(record) > 1 \/ record[1][1] # "version")

\* a synthesis followed by a merge: among the entries stored are a plain
\* version, a one-field record that is not a version, and a record with a
\* version and another field; each stored value is in the manifest
C7_Witness ==
    /\ last.out.status = "delegated"
    /\ last.out.wrote
    /\ Len(last.out.stored) > Len(PoetryRequires)
    /\ \E i \in 1..Len(last.out.stored) :
          last.out.stored[i].value.kind = "plain"
    /\ \E i \in 1..Len(last.out.stored) :
          /\ last.out.stored[i].value.kind = "table"
          /\ Len(last.out.stored[i].record) = 1
    /\ \E i \in 1..Len(last.out.stored) :
          /\ last.out.stored[i].value.kind = "table"
          /\ Len(last.out.stored[i].record) > 1
          /\ HasField(last.out.stored[i].record, "version")
    /\ \A i \in 1..Len(last.out.stored) :
          \E j \in 1..Len(disk.deps) :
             disk.deps[j].value = last.out.stored[i].value

----------------------------------------------------------------------------
(* C8 *)

\* C8: the dependency section never holds two keys that are equal when
\* lower-cased.
C8_NoCaseDuplicateKeys ==
    disk.exists =>
        \A i, j \in 1..Len(disk.deps) :
            lower(disk.deps[i].key) = lower(disk.deps[j].key) => i = j

----------------------------------------------------------------------------
(* C9 *)

AllBare(plugins) == \A i \in 1..Len(plugins) : IsBare(plugins[i])

\* the update command failed on plugins that had just been merged, and the
\* same bare names, each the name it was merged under up to case, are
\* requested again
RetryAfterFailedUpdate ==
    /\ last.again
    /\ last.before.status = "delegated"
    /\ last.before.exit # 0
    /\ AllBare(last.plugins)
    /\ \A i \in 1..Len(last.plugins) : TypedAsNamed(last.plugins[i])

\* C9: the manifest written before the update command runs is not rolled
\* back: whatever the update command returns is handle's exit status and the
\* merged plugins are in the manifest on disk; requesting the same bare names
\* again after a failed update reports them all as already present and
\* returns 0 without running the update command or touching the manifest.
C9_MergeSurvivesFailedUpdate ==
    /\ last.out.status = "delegated" =>
          /\ last.out.exit = last.env.exit
          /\ Len(last.out.plugin_names) > 0
          /\ \A i \in 1..Len(last.out.determined) :
                HasKey(disk, determine_requirement(last.out.determined[i]).name)
    /\ RetryAfterFailedUpdate =>
          /\ last.out.status = "nothing"
          /\ last.out.exit = 0
          /\ Range(last.out.notified) = Range(last.plugins)
          /\ last.out.argv = <<>>
          /\ disk = last.pre

\* bare names requested again after the update command returned non-zero
C9_Witness ==
    /\ RetryAfterFailedUpdate
    /\ Len(last.plugins) > 0
    /\ last.out.status = "nothing"
    /\ \A i \in 1..Len(last.plugins) :
          HasKey(disk, determine_requirement(last.plugins[i]).name)

----------------------------------------------------------------------------
(* C10 *)

\* the last invocation with the dry-run option the other way round
OtherDryRun ==
    handle(last.pre, last.plugins, ~last.dry_run, installed, last.env)

WithoutArgv(out) == [out EXCEPT !.argv = <<>>]

====
